---- MODULE Spec2Model ----
(***************************************************************************)
(* Client-side generation-session state machine of the AI Website Builder  *)
(* frontend: the zustand generation slice (store), the native WebSocket    *)
(* service (channel) with its heartbeat and reconnect timers, and the      *)
(* request/response calls of startGeneration / cancelGeneration.           *)
(*                                                                         *)
(* Optional values (null / undefined in the source) are sequences of       *)
(* length 0 or 1: <<>> is null, <<x>> is the value x.  An inbound frame is  *)
(* a record holding exactly the JSON fields that the frame carries.        *)
(***************************************************************************)
EXTENDS Integers, Sequences, FiniteSets, TLC

VARIABLES
    store,       \* zustand state: auth, currentGeneration, generationHistory, isGenerating, wsConnected
    svc,         \* WebSocketNativeService fields: socket, reconnectAttempts, generationId, pingInterval
    sockets,     \* the browser's WebSocket objects that can still dispatch an event
    timers,      \* pending setTimeout callbacks of handleReconnect, as their delays, oldest first
    intervals,   \* active setInterval handles
    startReqs,   \* number of generationApi.startGeneration requests in flight
    cancelReqs,  \* number of generationApi.cancelGeneration requests in flight
    loginReqs,   \* number of login calls waiting for their answer
    now,         \* the value new Date() returns
    hook,        \* useWebSocket in GenerationPage: mounted, its generationId argument, connectionRef
    wizard,      \* GenerationWizard's useState: currentStep, completedSteps
    last         \* the handler that ran last: its name, its input and what it reported

vars == <<store, svc, sockets, timers, intervals, startReqs, cancelReqs, loginReqs, now, hook,
          wizard, last>>

----------------------------------------------------------------------------
(* Bounds of the model *)

MaxClock == 1

MaxHistory == 2

MaxSockets == 2

MaxTimers == 2

MaxRequests == 1

(* Program constants *)

maxReconnectAttempts == 5

reconnectInterval == 1000

HeartbeatMs == 30000

GenIds == {"g1", "g2"}

NULL == <<>>

Some(x) == <<x>>

NullId == "null"

----------------------------------------------------------------------------
(* Generation slice *)

StepIds == <<"content", "design", "structure", "quality">>

StepNames == <<"Content Generation", "Design System", "Website Structure", "Quality Check">>

InitialSteps ==
    [i \in 1..4 |-> [id |-> StepIds[i], name |-> StepNames[i],
                     status |-> "pending", progress |-> 0, completedAt |-> NULL]]

\* dates is the JavaScript type of the session's startedAt and completedAt:
\* Date objects, or the ISO strings that a JSON round trip leaves.
NewGeneration(generationId, businessData, t) ==
    [id |-> generationId,
     dates |-> "Date",
     status |-> "in_progress",
     progress |-> 0,
     startedAt |-> t,
     completedAt |-> NULL,
     businessData |-> businessData,
     steps |-> InitialSteps,
     result |-> NULL,
     error |-> NULL]

\* createAuthSlice: the initial auth state
InitialAuth ==
    [user |-> NULL, token |-> NULL, isLoading |-> FALSE, error |-> NULL]

InitialStore ==
    [auth |-> InitialAuth,
     currentGeneration |-> NULL,
     generationHistory |-> <<>>,
     isGenerating |-> FALSE,
     wsConnected |-> FALSE]

\* Mutant: every phase is marked in_progress, not only the referenced one.
updateProgressAllSteps(st, progress) ==
    IF st.currentGeneration = NULL THEN st
    ELSE LET current == st.currentGeneration[1]
         IN [st EXCEPT !.currentGeneration = Some(
                [current EXCEPT
                   !.progress = progress.progress,
                   !.steps = [i \in DOMAIN current.steps |->
                                [current.steps[i] EXCEPT
                                   !.status = "in_progress",
                                   !.progress = progress.stepProgress]]])]

\* Mutant: a phase that the session does not have is added to it.
updateProgressAppending(st, progress) ==
    IF st.currentGeneration = NULL THEN st
    ELSE LET current == st.currentGeneration[1]
             known == \E i \in DOMAIN current.steps : current.steps[i].id = progress.step
             marked == [i \in DOMAIN current.steps |->
                          IF current.steps[i].id = progress.step
                          THEN [current.steps[i] EXCEPT
                                   !.status = "in_progress",
                                   !.progress = progress.stepProgress]
                          ELSE current.steps[i]]
         IN [st EXCEPT !.currentGeneration = Some(
                [current EXCEPT
                   !.progress = progress.progress,
                   !.steps = IF known THEN marked
                             ELSE Append(marked, [id |-> progress.step,
                                                  name |-> progress.step,
                                                  status |-> "in_progress",
                                                  progress |-> progress.stepProgress,
                                                  completedAt |-> NULL])])]

updateProgress(st, progress) ==
    IF st.currentGeneration = NULL THEN st
    ELSE LET current == st.currentGeneration[1]
             updatedGeneration ==
                 [current EXCEPT
                    !.progress = progress.progress,
                    !.steps = [i \in DOMAIN current.steps |->
                                 IF current.steps[i].id = progress.step
                                 THEN [current.steps[i] EXCEPT
                                          !.status = "in_progress",
                                          !.progress = progress.stepProgress]
                                 ELSE current.steps[i]]]
         IN [st EXCEPT !.currentGeneration = Some(updatedGeneration)]

\* Mutant: without a current session the completion still ends the generating state.
completeGenerationEndsGenerating(st, result, t) ==
    IF st.currentGeneration = NULL THEN [st EXCEPT !.isGenerating = FALSE]
    ELSE LET current == st.currentGeneration[1]
             completedGeneration ==
                 [current EXCEPT
                    !.status = "completed",
                    !.progress = 100,
                    !.completedAt = Some(t),
                    !.result = Some(result),
                    !.steps = [i \in DOMAIN current.steps |->
                                 [current.steps[i] EXCEPT
                                    !.status = "completed",
                                    !.progress = 100,
                                    !.completedAt = Some(t)]]]
         IN [st EXCEPT
               !.currentGeneration = Some(completedGeneration),
               !.generationHistory = <<completedGeneration>> \o st.generationHistory,
               !.isGenerating = FALSE]

\* Mutant: the finalized session replaces the history.
completeGenerationReplacing(st, result, t) ==
    IF st.currentGeneration = NULL THEN st
    ELSE LET current == st.currentGeneration[1]
             completedGeneration ==
                 [current EXCEPT
                    !.status = "completed",
                    !.progress = 100,
                    !.completedAt = Some(t),
                    !.result = Some(result),
                    !.steps = [i \in DOMAIN current.steps |->
                                 [current.steps[i] EXCEPT
                                    !.status = "completed",
                                    !.progress = 100,
                                    !.completedAt = Some(t)]]]
         IN [st EXCEPT
               !.currentGeneration = Some(completedGeneration),
               !.generationHistory = <<completedGeneration>>,
               !.isGenerating = FALSE]

\* Mutant: the finalized session is not added to the history.
completeGenerationUnlisted(st, result, t) ==
    IF st.currentGeneration = NULL THEN st
    ELSE LET current == st.currentGeneration[1]
         IN [st EXCEPT
               !.currentGeneration = Some(
                   [current EXCEPT
                      !.status = "completed",
                      !.progress = 100,
                      !.completedAt = Some(t),
                      !.result = Some(result),
                      !.steps = [i \in DOMAIN current.steps |->
                                   [current.steps[i] EXCEPT
                                      !.status = "completed",
                                      !.progress = 100,
                                      !.completedAt = Some(t)]]]),
               !.isGenerating = FALSE]

completeGeneration(st, result, t) ==
    IF st.currentGeneration = NULL THEN st
    ELSE LET current == st.currentGeneration[1]
             completedGeneration ==
                 [current EXCEPT
                    !.status = "completed",
                    !.progress = 100,
                    !.completedAt = Some(t),
                    !.result = Some(result),
                    !.steps = [i \in DOMAIN current.steps |->
                                 [current.steps[i] EXCEPT
                                    !.status = "completed",
                                    !.progress = 100,
                                    !.completedAt = Some(t)]]]
         IN [st EXCEPT
               !.currentGeneration = Some(completedGeneration),
               !.generationHistory = <<completedGeneration>> \o st.generationHistory,
               !.isGenerating = FALSE]

\* Mutant: a failure resets the phases of the session.
failGenerationResetting(st, error, t) ==
    IF st.currentGeneration = NULL THEN st
    ELSE LET current == st.currentGeneration[1]
         IN [st EXCEPT
               !.currentGeneration = Some(
                   [current EXCEPT
                      !.status = "failed",
                      !.error = Some(error),
                      !.completedAt = Some(t),
                      !.steps = [i \in DOMAIN current.steps |->
                                   [current.steps[i] EXCEPT
                                      !.status = "pending", !.progress = 0]]]),
               !.isGenerating = FALSE]

failGeneration(st, error, t) ==
    IF st.currentGeneration = NULL THEN st
    ELSE LET current == st.currentGeneration[1]
             failedGeneration ==
                 [current EXCEPT
                    !.status = "failed",
                    !.error = Some(error),
                    !.completedAt = Some(t)]
         IN [st EXCEPT
               !.currentGeneration = Some(failedGeneration),
               !.isGenerating = FALSE]

\* Mutant: the local state is cleared only once the remote request has answered.
cancelGenerationDeferred(st) == st

\* The store after cancelGeneration; the remote request is fired by the action.
cancelGeneration(st) ==
    IF st.currentGeneration = NULL THEN st
    ELSE [st EXCEPT !.currentGeneration = NULL, !.isGenerating = FALSE]

clearCurrentGeneration(st) ==
    [st EXCEPT !.currentGeneration = NULL, !.isGenerating = FALSE]

setWsConnected(st, connected) ==
    [st EXCEPT !.wsConnected = connected]

\* login up to its await
loginCall(st) ==
    [st EXCEPT !.auth.isLoading = TRUE, !.auth.error = NULL]

\* login after the (mock) answer arrived
loginResolved(st, response) ==
    [st EXCEPT !.auth.user = Some(response.user),
               !.auth.token = Some(response.token),
               !.auth.isLoading = FALSE]

logout(st) ==
    [st EXCEPT !.auth.user = NULL, !.auth.token = NULL]

NoHeader == "<no Authorization header>"

\* The request interceptor of apiClient: the Authorization header of a
\* request sent now.
AuthorizationHeader(st) ==
    IF st.auth.token # NULL /\ st.auth.token[1] # ""
    THEN "Bearer " \o st.auth.token[1]
    ELSE NoHeader

\* Mutant: an authorization failure is passed on without the logout.
responseErrorPassedOn(st, error) == st

\* The response interceptor of apiClient on an error response; the error is
\* then rejected to the caller.
responseError(st, error) ==
    IF error.status = 401 THEN logout(st) ELSE st

\* Mutant: the current session is persisted too.
partializeWithCurrent(st) ==
    [auth |-> st.auth, generationHistory |-> st.generationHistory,
     currentGeneration |-> st.currentGeneration, isGenerating |-> st.isGenerating]

\* partialize: what persist writes to localStorage
partialize(st) ==
    [auth |-> st.auth, generationHistory |-> st.generationHistory]

\* JSON.parse(JSON.stringify(x)) of the persisted state: a Date comes back
\* as its ISO string.
JsonRoundTrip(persisted) ==
    [persisted EXCEPT !.generationHistory =
        [i \in DOMAIN persisted.generationHistory |->
            [persisted.generationHistory[i] EXCEPT !.dates = "string"]]]

\* startGeneration up to its await: set({ isGenerating: true }).
startGenerationCall(st) ==
    [st EXCEPT !.isGenerating = TRUE]

\* Mutant: the session is always named by the client.
AssignedIdLocal(response, uuid) == uuid

\* response.generation_id || uuidv4()
AssignedId(response, uuid) ==
    IF "generation_id" \in DOMAIN response /\ response.generation_id # ""
    THEN response.generation_id
    ELSE uuid

\* startGeneration after the request succeeded: set({ currentGeneration: newGeneration }).
startGenerationResolved(st, response, uuid, businessData, t) ==
    [st EXCEPT !.currentGeneration =
        Some(NewGeneration(AssignedId(response, uuid), businessData, t))]

GenericStartError == "Failed to start website generation"

\* Mutant: the detail of the error response is ignored.
StartErrorMessageGeneric(apiError) == GenericStartError

\* apiError?.response?.data?.detail || 'Failed to start website generation'
StartErrorMessage(apiError) ==
    IF "detail" \in DOMAIN apiError /\ apiError.detail # ""
    THEN apiError.detail
    ELSE GenericStartError

\* startGeneration after the request failed: the outer catch, set({ isGenerating: false }).
startGenerationRejected(st) ==
    [st EXCEPT !.isGenerating = FALSE]

----------------------------------------------------------------------------
(* WebSocketNativeService.  A world w is the record of everything a handler *)
(* of the service can read or write.                                        *)

InitialSvc ==
    [socket |-> NULL,
     reconnectAttempts |-> 0,
     generationId |-> NullId,
     pingInterval |-> NULL]

ConnectionLost ==
    [message |-> "Connection to the server lost",
     code |-> "CONNECTION_LOST",
     details |-> "Unable to reconnect to the server after multiple attempts"]

\* Objects that can no longer dispatch an event and are referenced by nobody
\* are dropped from the table of sockets.
Collect(w) ==
    [w EXCEPT !.sockets =
        [s \in {x \in DOMAIN w.sockets :
                   w.sockets[x].readyState # "CLOSED" \/ w.svc.socket = Some(x)}
           |-> w.sockets[s]]]

FreshSocket(w) == CHOOSE s \in 1..(Cardinality(DOMAIN w.sockets) + 1) : s \notin DOMAIN w.sockets

FreshHandle(w) == CHOOSE h \in 1..(Cardinality(w.intervals) + 1) : h \notin w.intervals

\* if (this.pingInterval !== null) { window.clearInterval(...); this.pingInterval = null; }
clearPing(w) ==
    IF w.svc.pingInterval = NULL THEN w
    ELSE [w EXCEPT !.intervals = w.intervals \ {w.svc.pingInterval[1]},
                   !.svc.pingInterval = NULL]

\* Mutant: the exponent is the attempt number itself.
ReconnectDelayDoubled(attempt) == reconnectInterval * 2^attempt

ReconnectDelay(attempt) == reconnectInterval * 2^(attempt - 1)

handleReconnect(w) ==
    LET w1 == clearPing(w) IN
    IF w1.svc.reconnectAttempts < maxReconnectAttempts
    THEN LET n == w1.svc.reconnectAttempts + 1
         IN [w1 EXCEPT !.svc.reconnectAttempts = n,
                       !.timers = Append(w1.timers, ReconnectDelay(n))]
    ELSE [w1 EXCEPT !.store = failGeneration(w1.store, ConnectionLost, w1.now)]

\* Mutant: the first call closes the socket, only a later one drops it.
disconnectInTwoSteps(w) ==
    LET w1 == clearPing(w) IN
    IF w1.svc.socket = NULL THEN w1
    ELSE LET s == w1.svc.socket[1]
         IN IF w1.sockets[s].readyState \in {"OPEN", "CONNECTING"}
            THEN [w1 EXCEPT !.sockets[s].readyState = "CLOSING",
                            !.store = setWsConnected(w1.store, FALSE)]
            ELSE Collect([w1 EXCEPT !.svc.socket = NULL,
                                    !.store = setWsConnected(w1.store, FALSE)])

\* Mutant: the socket is dropped without being closed.
disconnectWithoutClose(w) ==
    LET w1 == clearPing(w) IN
    IF w1.svc.socket = NULL THEN w1
    ELSE Collect([w1 EXCEPT !.svc.socket = NULL,
                            !.store = setWsConnected(w1.store, FALSE)])

\* What a call of disconnect() does to the outside: socket.close() and the
\* setWsConnected(false) signal, the signal alone, or nothing.
disconnectReport(w) ==
    IF w.svc.socket = NULL THEN "nothing"
    ELSE IF w.sockets[w.svc.socket[1]].readyState \in {"OPEN", "CONNECTING"}
         THEN "closed and signalled"
         ELSE "signalled"

disconnect(w) ==
    LET w1 == clearPing(w) IN
    IF w1.svc.socket = NULL THEN w1
    ELSE LET s == w1.svc.socket[1]
             closed == IF w1.sockets[s].readyState \in {"OPEN", "CONNECTING"}
                       THEN [w1 EXCEPT !.sockets[s].readyState = "CLOSING"]
                       ELSE w1
         IN Collect([closed EXCEPT !.svc.socket = NULL,
                                   !.store = setWsConnected(closed.store, FALSE)])

\* Mutant: the id of the first connect() is kept by later calls.
connectKeepingFirstId(w, generationId) ==
    LET id == IF w.svc.generationId # NullId THEN w.svc.generationId ELSE generationId
        w1 == disconnect([w EXCEPT !.svc.generationId = id])
        s  == FreshSocket(w1)
        w2 == [w1 EXCEPT !.sockets = [x \in DOMAIN w1.sockets \cup {s} |->
                                         IF x = s
                                         THEN [readyState |-> "CONNECTING", gen |-> id]
                                         ELSE w1.sockets[x]],
                         !.svc.socket = Some(s)]
        h  == FreshHandle(w2)
    IN [w2 EXCEPT !.intervals = w2.intervals \cup {h},
                  !.svc.pingInterval = Some(h)]

connect(w, generationId) ==
    LET w1 == disconnect([w EXCEPT !.svc.generationId = generationId])
        s  == FreshSocket(w1)
        w2 == [w1 EXCEPT !.sockets = [x \in DOMAIN w1.sockets \cup {s} |->
                                         IF x = s
                                         THEN [readyState |-> "CONNECTING", gen |-> generationId]
                                         ELSE w1.sockets[x]],
                         !.svc.socket = Some(s)]
        h  == FreshHandle(w2)
    IN [w2 EXCEPT !.intervals = w2.intervals \cup {h},
                  !.svc.pingInterval = Some(h)]

onopen(w) ==
    [w EXCEPT !.store = setWsConnected(w.store, TRUE),
              !.svc.reconnectAttempts = 0]

onclose(w) ==
    handleReconnect([w EXCEPT !.store = setWsConnected(w.store, FALSE)])

\* x || d for a string field of a parsed frame
StrOr(data, k, d) == IF k \in DOMAIN data /\ data[k] # "" THEN data[k] ELSE d

\* x || d for a numeric field of a parsed frame
NumOr(data, k, d) == IF k \in DOMAIN data /\ data[k] # 0 THEN data[k] ELSE d

\* this.generationId || ''
IdOrEmpty(id) == IF id = NullId THEN "" ELSE id

\* Mutant: a frame without a progress field is decoded as fully done.
DecodeProgressDone(data, id, t) ==
    [generationId |-> StrOr(data, "generation_id", IdOrEmpty(id)),
     progress |-> NumOr(data, "progress", 100),
     step |-> StrOr(data, "step", "Unknown"),
     stepProgress |-> NumOr(data, "step_progress", NumOr(data, "progress", 0)),
     message |-> StrOr(data, "message", ""),
     timestamp |-> IF "timestamp" \in DOMAIN data /\ data.timestamp # 0
                   THEN data.timestamp ELSE t]

DecodeProgress(data, id, t) ==
    [generationId |-> StrOr(data, "generation_id", IdOrEmpty(id)),
     progress |-> NumOr(data, "progress", 0),
     step |-> StrOr(data, "step", "Unknown"),
     stepProgress |-> NumOr(data, "step_progress", NumOr(data, "progress", 0)),
     message |-> StrOr(data, "message", ""),
     timestamp |-> IF "timestamp" \in DOMAIN data /\ data.timestamp # 0
                   THEN data.timestamp ELSE t]

DecodeResult(data, id) ==
    [generationId |-> StrOr(data, "generation_id", IdOrEmpty(id)),
     websiteData |-> StrOr(data, "final_website", "{}"),
     qualityScore |-> NumOr(data, "quality_score", 0)]

DecodeError(data) ==
    [message |-> StrOr(data, "message", "Unknown error"),
     code |-> StrOr(data, "code", "ERROR"),
     details |-> StrOr(data, "details", "")]

\* JSON.parse(event.data) throws on a frame that is no JSON text; a frame that
\* parses to something without a type reaches the default branch.
Parses(raw) == "unparsable" \notin DOMAIN raw

TypeOf(data) == IF "type" \in DOMAIN data THEN data.type ELSE "undefined"

\* Mutant: a frame that does not parse or has no known type fails the session.
onmessageStrict(w, raw) ==
    IF ~Parses(raw)
    THEN [w EXCEPT !.store = failGeneration(w.store, DecodeError(raw), w.now)]
    ELSE CASE TypeOf(raw) = "connection" -> w
           [] TypeOf(raw) = "progress_update" ->
                [w EXCEPT !.store =
                    updateProgress(w.store, DecodeProgress(raw, w.svc.generationId, w.now))]
           [] TypeOf(raw) = "generation_complete" ->
                [w EXCEPT !.store =
                    completeGeneration(w.store, DecodeResult(raw, w.svc.generationId), w.now)]
           [] TypeOf(raw) = "pong" -> w
           [] OTHER ->
                [w EXCEPT !.store = failGeneration(w.store, DecodeError(raw), w.now)]

onmessage(w, raw) ==
    IF ~Parses(raw) THEN w
    ELSE CASE TypeOf(raw) = "connection" -> w
           [] TypeOf(raw) = "progress_update" ->
                [w EXCEPT !.store =
                    updateProgress(w.store, DecodeProgress(raw, w.svc.generationId, w.now))]
           [] TypeOf(raw) = "generation_complete" ->
                [w EXCEPT !.store =
                    completeGeneration(w.store, DecodeResult(raw, w.svc.generationId), w.now)]
           [] TypeOf(raw) = "error" ->
                [w EXCEPT !.store = failGeneration(w.store, DecodeError(raw), w.now)]
           [] TypeOf(raw) = "pong" -> w
           [] OTHER -> w

----------------------------------------------------------------------------
(* WebSocketService of services/websocket.ts: the handlers of the events    *)
(* that are scoped to one agent (phase).                                    *)

\* socket.on('agent_progress', ...)
agentProgress(st, data, t) ==
    updateProgress(st, [generationId |-> StrOr(data, "generationId", ""),
                        progress |-> NumOr(data, "overallProgress", 0),
                        step |-> data.agentId,
                        stepProgress |-> NumOr(data, "progress", 0),
                        message |-> StrOr(data, "message", ""),
                        timestamp |-> t])

\* socket.on('agent_completed', ...)
agentCompleted(st, data, t) ==
    updateProgress(st, [generationId |-> StrOr(data, "generationId", ""),
                        progress |-> NumOr(data, "overallProgress", 0),
                        step |-> data.agentId,
                        stepProgress |-> 100,
                        message |-> "Completed",
                        timestamp |-> t])

\* socket.on('agent_failed', ...)
agentFailed(st, data, t) ==
    failGeneration(st, [message |-> StrOr(data, "error", "Agent failed"),
                        code |-> "AGENT_FAILED",
                        details |-> "Agent " \o data.agentId \o " failed: "
                                        \o StrOr(data, "error", "undefined")],
                   t)

----------------------------------------------------------------------------
\* sendMessage({ type: 'ping' }): "sent" when the socket is open, else only a warning
sendPing(w) ==
    IF w.svc.socket # NULL /\ w.sockets[w.svc.socket[1]].readyState = "OPEN"
    THEN "sent" ELSE "warned"

----------------------------------------------------------------------------
(* useWebSocket(currentGeneration?.id || null) in GenerationPage *)

InitialHook == [mounted |-> FALSE, generationId |-> NullId, connectionRef |-> FALSE]

CurrentId(st) ==
    IF st.currentGeneration = NULL THEN NullId ELSE st.currentGeneration[1].id

\* The effect body; r is the pair <<world, connectionRef>>.
hookEffect(r, generationId) ==
    IF generationId # NullId /\ ~r[2]
    THEN <<connect(r[1], generationId), TRUE>>
    ELSE r

\* The effect's cleanup.
hookCleanup(r) ==
    IF r[2] THEN <<disconnect(r[1]), FALSE>> ELSE r

----------------------------------------------------------------------------
(* GenerationWizard *)

\* steps: the ids of the wizard's steps; currentStep counts from 0.
steps == <<"business", "design", "structure", "features", "review">>

InitialWizard == [currentStep |-> 0, completedSteps |-> {}]

stepValidationMap(stepIndex) ==
    CASE stepIndex = 0 -> {"businessInfo.businessName", "businessInfo.businessCategory",
                           "businessInfo.businessDescription"}
      [] stepIndex = 1 -> {"designPreferences.colorScheme", "designPreferences.style"}
      [] stepIndex = 2 -> {"structure.pages"}
      [] OTHER -> {}

\* isStepValid; triggerResult is what the form's trigger(fieldsToValidate)
\* resolves to.
isStepValid(stepIndex, triggerResult) ==
    IF stepValidationMap(stepIndex) = {} THEN TRUE ELSE triggerResult

\* handleNext reaches onComplete(getValues())
Submits(wz, triggerResult) ==
    isStepValid(wz.currentStep, triggerResult) /\ ~(wz.currentStep < Len(steps) - 1)

handleNext(wz, triggerResult) ==
    IF isStepValid(wz.currentStep, triggerResult)
    THEN [currentStep |-> IF wz.currentStep < Len(steps) - 1
                          THEN wz.currentStep + 1 ELSE wz.currentStep,
          completedSteps |-> wz.completedSteps \cup {wz.currentStep}]
    ELSE wz

handlePrevious(wz) ==
    IF wz.currentStep > 0 THEN [wz EXCEPT !.currentStep = wz.currentStep - 1] ELSE wz

\* Mutant: a valid current step opens every later step.
handleStepClickAhead(wz, stepIndex, triggerResult) ==
    IF stepIndex < wz.currentStep
          \/ (stepIndex > wz.currentStep /\ isStepValid(wz.currentStep, triggerResult))
    THEN [wz EXCEPT !.currentStep = stepIndex]
    ELSE wz

handleStepClick(wz, stepIndex, triggerResult) ==
    IF stepIndex < wz.currentStep
          \/ (stepIndex = wz.currentStep + 1 /\ isStepValid(wz.currentStep, triggerResult))
    THEN [wz EXCEPT !.currentStep = stepIndex]
    ELSE wz

\* disabled={index > currentStep && !completedSteps.has(currentStep)}
StepButtonDisabled(wz, index) ==
    index > wz.currentStep /\ wz.currentStep \notin wz.completedSteps

----------------------------------------------------------------------------
(* Inputs *)

NoDetail == "<no detail>"

NoId == "<no id>"

BusinessInputs == {"bd"}

\* The answer of the mock login
LoginResponses ==
    {[user |-> [id |-> "1", email |-> "user@example.com", name |-> "Demo User"],
      token |-> "mock-token-12345"]}

UuidIds == {"u1"}

StartResponses ==
    {[generation_id |-> g, status |-> "started"] : g \in GenIds}
        \cup {[status |-> "started"]}

ApiErrors ==
    { [status |-> 0],
      [status |-> 401, detail |-> "Not authenticated"],
      [status |-> 500, detail |-> ""],
      [status |-> 422, detail |-> "Business name is required"] }

Frames ==
    { [type |-> "progress_update", generation_id |-> "g1", progress |-> 40,
       step |-> "content", step_progress |-> 80],
      [type |-> "progress_update", progress |-> 40, step |-> "deploy"],
      [type |-> "progress_update"],
      [type |-> "generation_complete", final_website |-> "site", quality_score |-> 92],
      [type |-> "error", message |-> "boom", code |-> "E1"],
      [type |-> "pong"],
      [type |-> "connection"],
      [type |-> "mystery"],
      [unparsable |-> TRUE] }

\* Events of the agents content and design
AgentEvents ==
    { [event |-> "agent_progress",
       data |-> [generationId |-> "g1", agentId |-> "content", overallProgress |-> 40,
                 progress |-> 80, message |-> "writing"]],
      [event |-> "agent_progress",
       data |-> [generationId |-> "g1", agentId |-> "design", overallProgress |-> 60,
                 progress |-> 30, message |-> "styling"]],
      [event |-> "agent_completed",
       data |-> [generationId |-> "g1", agentId |-> "content", overallProgress |-> 40]],
      [event |-> "agent_completed",
       data |-> [generationId |-> "g1", agentId |-> "design", overallProgress |-> 60]],
      [event |-> "agent_failed",
       data |-> [generationId |-> "g1", agentId |-> "content", error |-> "timeout"]],
      [event |-> "agent_failed",
       data |-> [generationId |-> "g1", agentId |-> "design", error |-> "timeout"]] }

\* The frames that move a session: one progress report, the completion, an error.
SessionFrames ==
    { [type |-> "progress_update", generation_id |-> "g1", progress |-> 40,
       step |-> "content", step_progress |-> 80],
      [type |-> "generation_complete", final_website |-> "site", quality_score |-> 92],
      [type |-> "error", message |-> "boom", code |-> "E1"] }

\* Progress reports that carry all three of progress, step and step_progress.
ProgressValues == {0, 40, 100}

ProgressFrames ==
    { [type |-> "progress_update", generation_id |-> "g1", progress |-> P,
       step |-> S, step_progress |-> Q] :
          P \in ProgressValues, Q \in ProgressValues, S \in {"content", "quality"} }

----------------------------------------------------------------------------
(* State machine.  Every action is one turn of the JavaScript event loop.   *)

World ==
    [store |-> store, svc |-> svc, sockets |-> sockets, timers |-> timers,
     intervals |-> intervals, now |-> now]

Bounded(w) ==
    /\ Len(w.timers) <= MaxTimers
    /\ Cardinality(DOMAIN w.sockets) <= MaxSockets
    /\ Len(w.store.generationHistory) <= MaxHistory

\* The state a handler leaves behind.
Commit(w) ==
    /\ Bounded(w)
    /\ store' = w.store
    /\ svc' = w.svc
    /\ sockets' = w.sockets
    /\ timers' = w.timers
    /\ intervals' = w.intervals

Did(op, info) == last' = [op |-> op, arg |-> "", info |-> info, frame |-> NULL]

Init ==
    /\ store = InitialStore
    /\ svc = InitialSvc
    /\ sockets = <<>>
    /\ timers = <<>>
    /\ intervals = {}
    /\ startReqs = 0
    /\ cancelReqs = 0
    /\ loginReqs = 0
    /\ now = 0
    /\ hook = InitialHook
    /\ wizard = InitialWizard
    /\ last = [op |-> "init", arg |-> "", info |-> "", frame |-> NULL]

Tick ==
    /\ now < MaxClock
    /\ now' = now + 1
    /\ Did("tick", "")
    /\ UNCHANGED <<store, svc, sockets, timers, intervals, startReqs, cancelReqs, loginReqs, hook, wizard>>

StartGeneration ==
    /\ startReqs < MaxRequests
    /\ store' = startGenerationCall(store)
    /\ startReqs' = startReqs + 1
    /\ last' = [op |-> "startGeneration", arg |-> AuthorizationHeader(store),
                info |-> "awaiting", frame |-> NULL]
    /\ UNCHANGED <<svc, sockets, timers, intervals, cancelReqs, loginReqs, now, hook, wizard>>

\* The creation request succeeded; arg is the generation_id of the response,
\* NoId when it carries none.  GenerationPage then renders the progress
\* dashboard in place of the wizard, whose state is discarded.
StartResolved(Responses) ==
    \E response \in Responses, uuid \in UuidIds, businessData \in BusinessInputs :
        /\ startReqs > 0
        /\ startReqs' = startReqs - 1
        /\ store' = startGenerationResolved(store, response, uuid, businessData, now)
        /\ last' = [op |-> "startGeneration",
                    arg |-> IF "generation_id" \in DOMAIN response
                            THEN response.generation_id ELSE NoId,
                    info |-> "resolved",
                    frame |-> NULL]
        /\ wizard' = InitialWizard
        /\ UNCHANGED <<svc, sockets, timers, intervals, cancelReqs, loginReqs, now, hook>>

\* The promise of startGeneration rejects with new Error(errorMessage); arg is
\* the detail field of the error response, NoDetail when it has none, frame
\* the error response.
StartRejected ==
    \E apiError \in ApiErrors :
        /\ startReqs > 0
        /\ startReqs' = startReqs - 1
        /\ store' = startGenerationRejected(responseError(store, apiError))
        /\ last' = [op |-> "startGeneration rejected",
                    arg |-> IF "detail" \in DOMAIN apiError THEN apiError.detail ELSE NoDetail,
                    info |-> StartErrorMessage(apiError),
                    frame |-> Some(apiError)]
        /\ UNCHANGED <<svc, sockets, timers, intervals, cancelReqs, loginReqs, now, hook, wizard>>

CancelGeneration ==
    /\ store.currentGeneration # NULL => cancelReqs < MaxRequests
    /\ store' = cancelGeneration(store)
    /\ cancelReqs' = IF store.currentGeneration # NULL THEN cancelReqs + 1 ELSE cancelReqs
    /\ last' = [op |-> "cancelGeneration",
                arg |-> IF store.currentGeneration # NULL
                        THEN AuthorizationHeader(store) ELSE "",
                info |-> IF store.currentGeneration # NULL THEN "requested" ELSE "returned",
                frame |-> NULL]
    /\ UNCHANGED <<svc, sockets, timers, intervals, startReqs, loginReqs, now, hook, wizard>>

\* The remote cancel request settles: a failure passes the response
\* interceptor and is logged by the .catch.
CancelSettled ==
    \E outcome \in {"ok", "failed", "unauthorized"} :
        /\ cancelReqs > 0
        /\ cancelReqs' = cancelReqs - 1
        /\ store' = CASE outcome = "ok" -> store
                       [] outcome = "failed" -> responseError(store, [status |-> 500])
                       [] outcome = "unauthorized" -> responseError(store, [status |-> 401])
        /\ Did("cancel settled", outcome)
        /\ UNCHANGED <<svc, sockets, timers, intervals, startReqs, loginReqs, now, hook, wizard>>

Login ==
    /\ loginReqs < MaxRequests
    /\ loginReqs' = loginReqs + 1
    /\ store' = loginCall(store)
    /\ Did("login", "awaiting")
    /\ UNCHANGED <<svc, sockets, timers, intervals, startReqs, cancelReqs, now, hook, wizard>>

LoginResolved ==
    \E response \in LoginResponses :
        /\ loginReqs > 0
        /\ loginReqs' = loginReqs - 1
        /\ store' = loginResolved(store, response)
        /\ Did("login", "resolved")
        /\ UNCHANGED <<svc, sockets, timers, intervals, startReqs, cancelReqs, now, hook, wizard>>

Logout ==
    /\ store' = logout(store)
    /\ Did("logout", "")
    /\ UNCHANGED <<svc, sockets, timers, intervals, startReqs, cancelReqs, loginReqs, now,
                   hook, wizard>>

\* The page is loaded again: every module starts from its initial state and
\* persist merges what localStorage holds into the store's initial state.
Restart ==
    /\ store' = [k \in DOMAIN InitialStore |->
                    IF k \in DOMAIN partialize(store)
                    THEN JsonRoundTrip(partialize(store))[k]
                    ELSE InitialStore[k]]
    /\ svc' = InitialSvc
    /\ sockets' = <<>>
    /\ timers' = <<>>
    /\ intervals' = {}
    /\ startReqs' = 0
    /\ cancelReqs' = 0
    /\ loginReqs' = 0
    /\ hook' = InitialHook
    /\ wizard' = InitialWizard
    /\ Did("restart", "")
    /\ UNCHANGED now

ClearCurrentGeneration ==
    /\ store' = clearCurrentGeneration(store)
    /\ Did("clearCurrentGeneration", "")
    /\ UNCHANGED <<svc, sockets, timers, intervals, startReqs, cancelReqs, loginReqs, now, hook, wizard>>

Mount ==
    /\ ~hook.mounted
    /\ LET generationId == CurrentId(store)
           r == hookEffect(<<World, FALSE>>, generationId)
       IN /\ Commit(r[1])
          /\ hook' = [mounted |-> TRUE, generationId |-> generationId, connectionRef |-> r[2]]
    /\ Did("mount", "")
    /\ UNCHANGED <<startReqs, cancelReqs, loginReqs, now, wizard>>

\* The generationId argument changed: the old effect's cleanup, then the effect.
Rerender ==
    /\ hook.mounted
    /\ hook.generationId # CurrentId(store)
    /\ LET generationId == CurrentId(store)
           r == hookEffect(hookCleanup(<<World, hook.connectionRef>>), generationId)
       IN /\ Commit(r[1])
          /\ hook' = [mounted |-> TRUE, generationId |-> generationId, connectionRef |-> r[2]]
    /\ Did("rerender", "")
    /\ UNCHANGED <<startReqs, cancelReqs, loginReqs, now, wizard>>

Unmount ==
    /\ hook.mounted
    /\ LET r == hookCleanup(<<World, hook.connectionRef>>)
       IN /\ Commit(r[1])
          /\ hook' = InitialHook
    /\ wizard' = InitialWizard
    /\ Did("unmount", "")
    /\ UNCHANGED <<startReqs, cancelReqs, loginReqs, now>>

SocketOpen ==
    \E s \in DOMAIN sockets :
        /\ sockets[s].readyState = "CONNECTING"
        /\ Commit(onopen([World EXCEPT !.sockets[s].readyState = "OPEN"]))
        /\ Did("onopen", "")
        /\ UNCHANGED <<startReqs, cancelReqs, loginReqs, now, hook, wizard>>

\* The connection could not be made, was lost, or finished closing; info is
\* the readyState the socket had.
SocketClose ==
    \E s \in DOMAIN sockets :
        /\ sockets[s].readyState \in {"CONNECTING", "OPEN", "CLOSING"}
        /\ Commit(Collect(onclose([World EXCEPT !.sockets[s].readyState = "CLOSED"])))
        /\ Did("onclose", sockets[s].readyState)
        /\ UNCHANGED <<startReqs, cancelReqs, loginReqs, now, hook, wizard>>

SocketMessage(F) ==
    \E s \in DOMAIN sockets, raw \in F :
        /\ sockets[s].readyState = "OPEN"
        /\ Commit(onmessage(World, raw))
        /\ last' = [op |-> "onmessage",
                    arg |-> "",
                    info |-> IF Parses(raw) THEN TypeOf(raw) ELSE "unparsable",
                    frame |-> Some(raw)]
        /\ UNCHANGED <<startReqs, cancelReqs, loginReqs, now, hook, wizard>>

\* websocketNativeService.connect(generationId) called by any caller.
Connect(Ids) ==
    \E generationId \in Ids :
        /\ Commit(connect(World, generationId))
        /\ last' = [op |-> "connect", arg |-> generationId, info |-> "", frame |-> NULL]
        /\ UNCHANGED <<startReqs, cancelReqs, loginReqs, now, hook, wizard>>

\* websocketNativeService.disconnect() called by any caller; info is what
\* the call did to the outside.
Disconnect ==
    /\ Commit(disconnect(World))
    /\ Did("disconnect", disconnectReport(World))
    /\ UNCHANGED <<startReqs, cancelReqs, loginReqs, now, hook, wizard>>

\* The socket of WebSocketService dispatches an agent event; frame is the
\* event's data.
AgentEvent ==
    \E ev \in AgentEvents :
        /\ store' = CASE ev.event = "agent_progress" -> agentProgress(store, ev.data, now)
                       [] ev.event = "agent_completed" -> agentCompleted(store, ev.data, now)
                       [] ev.event = "agent_failed" -> agentFailed(store, ev.data, now)
        /\ last' = [op |-> "agent event", arg |-> ev.data.agentId, info |-> ev.event,
                    frame |-> Some(ev.data)]
        /\ UNCHANGED <<svc, sockets, timers, intervals, startReqs, cancelReqs, loginReqs, now,
                       hook, wizard>>

\* GenerationPage shows the wizard while it is mounted and no session is
\* current.
WizardShown == hook.mounted /\ store.currentGeneration = NULL

\* The Next / Create Website button.  On the last step a valid form is handed
\* to onComplete, GenerationPage's handleWizardComplete, which calls
\* startGeneration.  frame is the step the click was made on and what
\* isStepValid answered.
WizardNext ==
    \E triggerResult \in BOOLEAN :
        /\ WizardShown
        /\ wizard' = handleNext(wizard, triggerResult)
        /\ IF Submits(wizard, triggerResult)
           THEN /\ startReqs < MaxRequests
                /\ store' = startGenerationCall(store)
                /\ startReqs' = startReqs + 1
           ELSE UNCHANGED <<store, startReqs>>
        /\ last' = [op |-> "handleNext",
                    arg |-> steps[wizard.currentStep + 1],
                    info |-> IF Submits(wizard, triggerResult) THEN "onComplete"
                             ELSE IF isStepValid(wizard.currentStep, triggerResult)
                                  THEN "next step" ELSE "invalid",
                    frame |-> Some([step |-> wizard.currentStep,
                                    valid |-> isStepValid(wizard.currentStep, triggerResult)])]
        /\ UNCHANGED <<svc, sockets, timers, intervals, cancelReqs, loginReqs, now, hook>>

\* The Previous button (on the first step the button is Cancel).
WizardPrevious ==
    /\ WizardShown
    /\ wizard.currentStep > 0
    /\ wizard' = handlePrevious(wizard)
    /\ Did("handlePrevious", "")
    /\ UNCHANGED <<store, svc, sockets, timers, intervals, startReqs, cancelReqs, loginReqs, now,
                   hook>>

\* A click on the button of step stepIndex in the progress bar; frame is the
\* clicked step, the step the click was made on and what isStepValid answers
\* for it.
WizardStepClick ==
    \E stepIndex \in 0..(Len(steps) - 1), triggerResult \in BOOLEAN :
        /\ WizardShown
        /\ ~StepButtonDisabled(wizard, stepIndex)
        /\ wizard' = handleStepClick(wizard, stepIndex, triggerResult)
        /\ last' = [op |-> "handleStepClick",
                    arg |-> steps[stepIndex + 1],
                    info |-> "",
                    frame |-> Some([target |-> stepIndex,
                                    step |-> wizard.currentStep,
                                    valid |-> isStepValid(wizard.currentStep, triggerResult)])]
        /\ UNCHANGED <<store, svc, sockets, timers, intervals, startReqs, cancelReqs, loginReqs,
                       now, hook>>

\* A timer set earlier with a delay no longer than another's fires first.
Due(i) == \A j \in 1..(i - 1) : timers[j] > timers[i]

Remove(seq, i) == SubSeq(seq, 1, i - 1) \o SubSeq(seq, i + 1, Len(seq))

ReconnectTimer ==
    \E i \in DOMAIN timers :
        /\ Due(i)
        /\ LET w == [World EXCEPT !.timers = Remove(timers, i)]
           IN Commit(IF svc.generationId # NullId THEN connect(w, svc.generationId) ELSE w)
        /\ Did("reconnect", "")
        /\ UNCHANGED <<startReqs, cancelReqs, loginReqs, now, hook, wizard>>

Heartbeat ==
    \E h \in intervals :
        /\ Did("sendPing", sendPing(World))
        /\ UNCHANGED <<store, svc, sockets, timers, intervals, startReqs, cancelReqs, loginReqs, now, hook, wizard>>

\* The whole program.
Next ==
    \/ Tick
    \/ WizardNext
    \/ WizardPrevious
    \/ WizardStepClick
    \/ StartGeneration
    \/ StartResolved(StartResponses)
    \/ StartRejected
    \/ CancelGeneration
    \/ CancelSettled
    \/ ClearCurrentGeneration
    \/ Login
    \/ LoginResolved
    \/ Logout
    \/ Restart
    \/ Mount
    \/ Rerender
    \/ Unmount
    \/ SocketOpen
    \/ SocketClose
    \/ SocketMessage(Frames)
    \/ ReconnectTimer
    \/ Heartbeat

Spec == Init /\ [][Next]_vars

\* The store under every sequence of its commands and of the frames of a
\* connection that stays up: one backend id, no transport failure.
StoreNext ==
    \/ StartGeneration
    \/ StartResolved({[generation_id |-> "g1", status |-> "started"]})
    \/ StartRejected
    \/ CancelGeneration
    \/ CancelSettled
    \/ ClearCurrentGeneration
    \/ Mount
    \/ Rerender
    \/ SocketOpen
    \/ SocketMessage(Frames)

SpecStore == Init /\ [][StoreNext]_vars

\* The creation and cancellation requests alone, under every answer of the
\* backend (an id of its own, no id, an error) while the clock advances.
StartNext ==
    \/ Tick
    \/ StartGeneration
    \/ StartResolved(StartResponses)
    \/ StartRejected
    \/ CancelGeneration
    \/ CancelSettled
    \/ ClearCurrentGeneration

SpecStart == Init /\ [][StartNext]_vars

\* Sessions of two backend ids, one after the other, on a connection that
\* stays up.
SessionsNext ==
    \/ StartGeneration
    \/ StartResolved({[generation_id |-> g, status |-> "started"] : g \in GenIds})
    \/ ClearCurrentGeneration
    \/ Mount
    \/ Rerender
    \/ SocketOpen
    \/ SocketMessage(SessionFrames)

SpecSessions == Init /\ [][SessionsNext]_vars

\* Every store action on sessions of one backend id while the clock
\* advances, on a connection that stays up.
TimedNext ==
    \/ Tick
    \/ StartGeneration
    \/ StartResolved({[generation_id |-> "g1", status |-> "started"]})
    \/ CancelGeneration
    \/ CancelSettled
    \/ ClearCurrentGeneration
    \/ Mount
    \/ SocketOpen
    \/ SocketMessage(SessionFrames)

SpecTimed == Init /\ [][TimedNext]_vars

\* The request/response calls of a user who logs in and out, under every
\* answer of the backend.
AuthNext ==
    \/ Login
    \/ LoginResolved
    \/ Logout
    \/ StartGeneration
    \/ StartResolved({[generation_id |-> "g1", status |-> "started"]})
    \/ StartRejected
    \/ CancelGeneration
    \/ CancelSettled

SpecAuth == Init /\ [][AuthNext]_vars

\* A logged-in user's sessions on a connection that stays up, with the page
\* loaded again at any moment.
RestartNext ==
    \/ Login
    \/ LoginResolved
    \/ StartGeneration
    \/ StartResolved({[generation_id |-> "g1", status |-> "started"]})
    \/ Mount
    \/ SocketOpen
    \/ SocketMessage(SessionFrames)
    \/ Restart

SpecRestart == Init /\ [][RestartNext]_vars

\* Sessions driven by the agent events of WebSocketService.
AgentsNext ==
    \/ StartGeneration
    \/ StartResolved({[generation_id |-> "g1", status |-> "started"]})
    \/ AgentEvent

SpecAgents == Init /\ [][AgentsNext]_vars

\* A session that receives progress reports on a connection that stays up.
ProgressNext ==
    \/ StartGeneration
    \/ StartResolved({[generation_id |-> "g1", status |-> "started"]})
    \/ Mount
    \/ SocketOpen
    \/ SocketMessage(ProgressFrames)

SpecProgress == Init /\ [][ProgressNext]_vars

\* A session that completes, after which the connection is closed and every
\* reconnect may fail.
FinishedNext ==
    \/ StartGeneration
    \/ StartResolved({[generation_id |-> "g1", status |-> "started"]})
    \/ Mount
    \/ SocketOpen
    \/ SocketMessage({[type |-> "generation_complete", final_website |-> "site",
                       quality_score |-> 92]})
    \/ SocketClose
    \/ ReconnectTimer

SpecFinished == Init /\ [][FinishedNext]_vars

\* The wizard of GenerationPage: its buttons, the creation request it sends
\* and the sessions that replace it on the page.
WizardSpecNext ==
    \/ Mount
    \/ Unmount
    \/ WizardNext
    \/ WizardPrevious
    \/ WizardStepClick
    \/ StartResolved({[generation_id |-> "g1", status |-> "started"]})
    \/ StartRejected
    \/ ClearCurrentGeneration

SpecWizard == Init /\ [][WizardSpecNext]_vars

\* The channel under every interleaving of the hook, the socket events and
\* the timers; sessions are started and cleared, one backend id, no frame.
ChannelNext ==
    \/ StartGeneration
    \/ StartResolved({[generation_id |-> "g1", status |-> "started"]})
    \/ ClearCurrentGeneration
    \/ Mount
    \/ Rerender
    \/ Unmount
    \/ SocketOpen
    \/ SocketClose
    \/ ReconnectTimer
    \/ Heartbeat

SpecChannel == Init /\ [][ChannelNext]_vars

\* The service under any caller of its public methods: connect() and
\* disconnect() in any order, interleaved with the socket events and the
\* timers, while a session is started.
ApiNext ==
    \/ StartGeneration
    \/ StartResolved({[generation_id |-> "g1", status |-> "started"]})
    \/ Connect({"g1"})
    \/ Disconnect
    \/ SocketOpen
    \/ SocketClose
    \/ ReconnectTimer
    \/ Heartbeat

SpecApi == Init /\ [][ApiNext]_vars

\* The service when its caller moves from one session id to another.
SwitchNext ==
    \/ Connect(GenIds)
    \/ Disconnect
    \/ SocketOpen
    \/ SocketClose
    \/ ReconnectTimer
    \/ Heartbeat

SpecSwitch == Init /\ [][SwitchNext]_vars

\* The channel when no connection attempt succeeds.  A socket that cannot
\* connect or that is closing always gets its close event, and a timer that
\* was set always fires.
LostNext ==
    \/ StartGeneration
    \/ StartResolved({[generation_id |-> "g1", status |-> "started"]})
    \/ ClearCurrentGeneration
    \/ Mount
    \/ Rerender
    \/ Unmount
    \/ SocketClose
    \/ ReconnectTimer
    \/ Heartbeat

SpecLost ==
    Init /\ [][LostNext]_vars /\ WF_vars(SocketClose) /\ WF_vars(ReconnectTimer)

----------------------------------------------------------------------------
(* Properties *)

HasCur == store.currentGeneration # NULL

Cur == store.currentGeneration[1]

Terminal(g) == g.status \in {"completed", "failed"}

\* The current session and the sessions of the history.
Sessions ==
    {store.generationHistory[i] : i \in DOMAIN store.generationHistory}
        \cup (IF HasCur THEN {Cur} ELSE {})

\* C1: once the current session is completed or failed, no inbound frame
\* changes its status (an error frame after completion does not make it
\* failed, a generation_complete frame after failure does not make it
\* completed).
C1_TerminalStatusFrozen ==
    [][(HasCur /\ Terminal(Cur) /\ last'.op = "onmessage")
          => (HasCur' /\ Cur'.status = Cur.status)]_vars

\* C2: once the current session is completed or failed, a progress_update
\* frame changes neither its overall progress nor any phase's status or
\* progress.
C2_TerminalProgressFrozen ==
    [][(HasCur /\ Terminal(Cur) /\ last'.op = "onmessage" /\ last'.info = "progress_update")
          => (HasCur' /\ Cur'.progress = Cur.progress /\ Cur'.steps = Cur.steps)]_vars

\* C3: a session never carries both a result and an error; a result is
\* present only when the status is completed, an error only when it is
\* failed; neither field is written a second time.
C3_Exclusive ==
    \A g \in Sessions :
        /\ ~(g.result # NULL /\ g.error # NULL)
        /\ g.result # NULL => g.status = "completed"
        /\ g.error # NULL => g.status = "failed"

C3_WrittenOnce ==
    (HasCur /\ last'.op = "onmessage")
        => /\ last'.info = "generation_complete" => Cur.result = NULL
           /\ last'.info = "error" => Cur.error = NULL

C3_ResultErrorExclusive == []C3_Exclusive /\ [][C3_WrittenOnce]_vars

\* C4: a session whose status is completed, current or in the history, has
\* every phase completed.
C4_CompletedImpliesPhasesCompleted ==
    \A g \in Sessions :
        g.status = "completed" => \A i \in DOMAIN g.steps : g.steps[i].status = "completed"

\* C5: the k-th closure in a row without a successful open in between
\* schedules a reconnect after 1000, 2000, 4000, 8000, 16000 ms for
\* k = 1..5; the 6th schedules none and fails the session with code
\* CONNECTION_LOST.  Only a closure and an open move the retry counter.
BackoffSchedule == <<1000, 2000, 4000, 8000, 16000>>

C5_Closure ==
    IF svc.reconnectAttempts < Len(BackoffSchedule)
    THEN /\ svc'.reconnectAttempts = svc.reconnectAttempts + 1
         /\ timers' = Append(timers, BackoffSchedule[svc.reconnectAttempts + 1])
         /\ store'.currentGeneration = store.currentGeneration
    ELSE /\ svc'.reconnectAttempts = svc.reconnectAttempts
         /\ timers' = timers
         /\ HasCur => /\ Cur'.status = "failed"
                      /\ Cur'.error # NULL
                      /\ Cur'.error[1].code = "CONNECTION_LOST"

C6_DisconnectDoesNotReconnect ==
    [][(last'.op = "onclose" /\ last'.info = "CLOSING")
          => (svc'.reconnectAttempts = svc.reconnectAttempts /\ timers' = timers)]_vars

C9_CancelUnconditional ==
    [][last'.op = "cancelGeneration"
          => (store'.currentGeneration = NULL /\ ~store'.isGenerating)]_vars

\* C10: a failed creation request rejects startGeneration with the detail of
\* the error response when it carries a non-empty one and with 'Failed to
\* start website generation' otherwise; isGenerating is false afterwards, and
\* neither the call nor the rejection touches currentGeneration.
C10_StartFailure ==
    [][/\ last'.op = "startGeneration rejected"
            => /\ last'.info = IF last'.arg \in {NoDetail, ""}
                               THEN "Failed to start website generation"
                               ELSE last'.arg
               /\ ~store'.isGenerating
               /\ store'.currentGeneration = store.currentGeneration
       /\ (last'.op = "startGeneration" /\ last'.info = "awaiting")
            => store'.currentGeneration = store.currentGeneration]_vars

\* A creation request was rejected with the server's detail; no session.
C10_Witness ==
    /\ last.op = "startGeneration rejected"
    /\ last.arg = "Business name is required"
    /\ last.info = "Business name is required"
    /\ store.currentGeneration = NULL
    /\ ~store.isGenerating

LostSession ==
    HasCur /\ Cur.status = "failed" /\ Cur.error # NULL
           /\ Cur.error[1].code = "CONNECTION_LOST"

\* C7: when no connection attempt succeeds, once the current session is
\* failed with code CONNECTION_LOST the channel has given up for good: it
\* makes no further connection attempt on its own (no reconnect timer fires).

C7_GivesUpPermanently == [][LostSession => last'.op # "reconnect"]_vars

\* C11: when the creation request succeeds with a response that carries an
\* id, the session installed as current has that id, status in_progress,
\* progress 0, no result, no error, and the four phases content, design,
\* structure, quality in that order, each pending with progress 0.
C11_StartInstallsSession ==
    [][(last'.op = "startGeneration" /\ last'.info = "resolved" /\ last'.arg # NoId)
          => /\ HasCur'
             /\ Cur'.id = last'.arg
             /\ Cur'.status = "in_progress"
             /\ Cur'.progress = 0
             /\ Cur'.result = NULL
             /\ Cur'.error = NULL
             /\ [i \in DOMAIN Cur'.steps |-> Cur'.steps[i].id]
                    = <<"content", "design", "structure", "quality">>
             /\ \A i \in DOMAIN Cur'.steps :
                    Cur'.steps[i].status = "pending" /\ Cur'.steps[i].progress = 0]_vars

\* The creation request has just succeeded for the backend's id g1.
C11_Witness ==
    /\ last.op = "startGeneration"
    /\ last.info = "resolved"
    /\ last.arg = "g1"
    /\ HasCur
    /\ Cur.id = "g1"
    /\ Cur.status = "in_progress"
    /\ store.isGenerating

\* C12: a generation_complete frame with a session current sets, in one
\* step, status completed, progress 100, completedAt, the result, every
\* phase completed with progress 100, adds the finalized session to the
\* history and keeps the other entries, and sets isGenerating to false.
C12_CompletionEffect ==
    [][(HasCur /\ last'.op = "onmessage" /\ last'.info = "generation_complete")
          => /\ HasCur'
             /\ Cur'.id = Cur.id
             /\ Cur'.status = "completed"
             /\ Cur'.progress = 100
             /\ Cur'.completedAt = Some(now)
             /\ Cur'.result # NULL
             /\ Cur'.result[1].websiteData = last'.frame[1].final_website
             /\ Cur'.result[1].qualityScore = last'.frame[1].quality_score
             /\ \A i \in DOMAIN Cur'.steps :
                    Cur'.steps[i].status = "completed" /\ Cur'.steps[i].progress = 100
             /\ \E i \in DOMAIN store'.generationHistory :
                    /\ store'.generationHistory[i] = Cur'
                    /\ Remove(store'.generationHistory, i) = store.generationHistory
             /\ ~store'.isGenerating]_vars

\* A session that had reported progress has just been completed and is listed.
C12_Witness ==
    /\ last.op = "onmessage"
    /\ last.info = "generation_complete"
    /\ HasCur
    /\ Cur.status = "completed"
    /\ Cur.progress = 100
    /\ Cur.error = NULL
    /\ Len(store.generationHistory) = 1
    /\ store.generationHistory[1] = Cur
    /\ ~store.isGenerating

\* C13: an error frame with a session current sets status failed,
\* completedAt and the error and sets isGenerating to false; the session's
\* overall progress, every phase's status and progress, and the history are
\* unchanged.
C13_FailureEffect ==
    [][(HasCur /\ last'.op = "onmessage" /\ last'.info = "error")
          => /\ HasCur'
             /\ Cur'.status = "failed"
             /\ Cur'.completedAt = Some(now)
             /\ Cur'.error # NULL
             /\ Cur'.error[1].message = last'.frame[1].message
             /\ Cur'.error[1].code = last'.frame[1].code
             /\ ~store'.isGenerating
             /\ Cur'.progress = Cur.progress
             /\ Cur'.steps = Cur.steps
             /\ store'.generationHistory = store.generationHistory]_vars

\* A session that was at 40 with phase content at 80 has just failed and
\* still shows that progress.
C13_Witness ==
    /\ last.op = "onmessage"
    /\ last.info = "error"
    /\ HasCur
    /\ Cur.status = "failed"
    /\ Cur.result = NULL
    /\ Cur.error # NULL
    /\ Cur.progress = 40
    /\ Cur.steps[1].status = "in_progress"
    /\ Cur.steps[1].progress = 80
    /\ ~store.isGenerating

\* The event that onmessage builds from the progress_update frame it received.
ReceivedProgress == DecodeProgress(last'.frame[1], svc.generationId, now)

\* C14: a progress_update with a session current sets the session's progress
\* to the event's progress and the referenced phase to in_progress with the
\* event's stepProgress; the id, status, result, error, every other phase,
\* the history, isGenerating and wsConnected are unchanged.
C14_ProgressEffect ==
    [][(HasCur /\ last'.op = "onmessage" /\ last'.info = "progress_update")
          => /\ HasCur'
             /\ Cur'.progress = ReceivedProgress.progress
             /\ DOMAIN Cur'.steps = DOMAIN Cur.steps
             /\ \A i \in DOMAIN Cur.steps :
                    IF Cur.steps[i].id = ReceivedProgress.step
                    THEN /\ Cur'.steps[i].status = "in_progress"
                         /\ Cur'.steps[i].progress = ReceivedProgress.stepProgress
                         /\ Cur'.steps[i].id = Cur.steps[i].id
                    ELSE Cur'.steps[i] = Cur.steps[i]
             /\ Cur'.id = Cur.id
             /\ Cur'.status = Cur.status
             /\ Cur'.result = Cur.result
             /\ Cur'.error = Cur.error
             /\ store'.generationHistory = store.generationHistory
             /\ store'.isGenerating = store.isGenerating
             /\ store'.wsConnected = store.wsConnected]_vars

\* The frame of the end-to-end scenario has just been applied to a session
\* in progress.
C14_Witness ==
    /\ last.op = "onmessage"
    /\ last.frame = Some([type |-> "progress_update", generation_id |-> "g1",
                           progress |-> 40, step |-> "content", step_progress |-> 80])
    /\ HasCur
    /\ Cur.status = "in_progress"
    /\ Cur.progress = 40
    /\ Cur.steps[1].status = "in_progress"
    /\ Cur.steps[1].progress = 80
    /\ Cur.steps[2].status = "pending"
    /\ store.isGenerating
    /\ store.wsConnected

\* C15: every session has the phases content, design, structure, quality in
\* that order in every state; a progress_update naming a phase outside that
\* set, or no step, updates only the overall progress and leaves every phase
\* record unchanged.
C15_FixedPhases ==
    \A g \in Sessions :
        [i \in DOMAIN g.steps |-> g.steps[i].id]
            = <<"content", "design", "structure", "quality">>

C15_UnknownPhase ==
    (/\ HasCur
     /\ last'.op = "onmessage"
     /\ last'.info = "progress_update"
     /\ \/ "step" \notin DOMAIN last'.frame[1]
        \/ last'.frame[1].step \notin {"content", "design", "structure", "quality"})
        => /\ HasCur'
           /\ Cur'.steps = Cur.steps
           /\ Cur'.progress = ReceivedProgress.progress

C15_PhaseIsolation == []C15_FixedPhases /\ [][C15_UnknownPhase]_vars

\* A progress_update naming the phase deploy has just moved the overall
\* progress of a fresh session; its phases are as they were created.
C15_Witness ==
    /\ last.op = "onmessage"
    /\ last.frame = Some([type |-> "progress_update", progress |-> 40, step |-> "deploy"])
    /\ HasCur
    /\ Cur.progress = 40
    /\ Cur.steps = InitialSteps

\* C16: a progress_update frame without progress, message and timestamp is
\* decoded into an event with progress 0, message "" and the receipt time as
\* timestamp, and the event is applied: the overall progress of the current
\* session becomes 0.
C16_MissingFields ==
    [][(/\ last'.op = "onmessage"
        /\ last'.info = "progress_update"
        /\ DOMAIN last'.frame[1] \cap {"progress", "message", "timestamp"} = {})
          => /\ ReceivedProgress.progress = 0
             /\ ReceivedProgress.message = ""
             /\ \A t \in 0..MaxClock :
                    DecodeProgress(last'.frame[1], svc.generationId, t).timestamp = t
             /\ HasCur => (HasCur' /\ Cur'.progress = 0)]_vars

\* A session that had reached 40 has just received a bare progress_update.
C16_Witness ==
    /\ last.op = "onmessage"
    /\ last.frame = Some([type |-> "progress_update"])
    /\ HasCur
    /\ Cur.progress = 0
    /\ Cur.steps[1].progress = 80

\* C17: a frame that does not parse, a frame of an unrecognised type, a
\* connection acknowledgment and a pong leave the store and the channel
\* (socket, heartbeat timer, retry counter, reconnect timers) unchanged.
C17_InertFrames ==
    [][(/\ last'.op = "onmessage"
        /\ \/ "unparsable" \in DOMAIN last'.frame[1]
           \/ "type" \notin DOMAIN last'.frame[1]
           \/ last'.frame[1].type \in {"mystery", "connection", "pong"})
          => /\ store' = store
             /\ svc' = svc
             /\ sockets' = sockets
             /\ intervals' = intervals
             /\ timers' = timers]_vars

\* A frame that does not parse has just been received by a session in
\* progress on an open connection.
C17_Witness ==
    /\ last.op = "onmessage"
    /\ last.info = "unparsable"
    /\ HasCur
    /\ Cur.status = "in_progress"
    /\ Cur.progress = 40
    /\ store.wsConnected
    /\ svc.socket # NULL
    /\ svc.pingInterval # NULL

\* C18: calling disconnect() twice in a row leaves the channel and the store
\* as calling it once does; the second call closes nothing and gives no
\* further setWsConnected(false) signal.
C18_SecondCallIsNoOp ==
    LET once == disconnect(World)
    IN /\ disconnect(once) = once
       /\ disconnectReport(once) = "nothing"

C18_TwiceInARow ==
    (last.op = "disconnect" /\ last'.op = "disconnect")
        => /\ store' = store
           /\ svc' = svc
           /\ sockets' = sockets
           /\ timers' = timers
           /\ intervals' = intervals
           /\ last'.info = "nothing"

C18_IdempotentDisconnect == []C18_SecondCallIsNoOp /\ [][C18_TwiceInARow]_vars

\* disconnect() closed a connection and was then called again.
C18_Witness ==
    /\ last.op = "disconnect"
    /\ last.info = "nothing"
    /\ svc.socket = NULL
    /\ svc.pingInterval = NULL
    /\ svc.generationId = "g1"
    /\ \E s \in DOMAIN sockets : sockets[s].readyState = "CLOSING"

\* C19: after disconnect() returns the channel has no heartbeat timer, no
\* socket reference and no associated session id, and wsConnected is false;
\* a socket that was neither open nor connecting was not closed by the call.
C19_DisconnectClearsAll ==
    [][last'.op = "disconnect"
          => /\ svc'.pingInterval = NULL
             /\ svc'.socket = NULL
             /\ svc'.generationId = NullId
             /\ ~store'.wsConnected
             /\ (last'.info = "closed and signalled")
                    = (svc.socket # NULL
                       /\ sockets[svc.socket[1]].readyState \in {"OPEN", "CONNECTING"})]_vars

\* C20: at most one socket created by the channel is CONNECTING or OPEN, and
\* it is the socket the channel references.
C20_OneLiveSocket ==
    /\ \A s \in DOMAIN sockets :
          sockets[s].readyState \in {"CONNECTING", "OPEN"} => svc.socket = Some(s)
    /\ Cardinality({s \in DOMAIN sockets :
                       sockets[s].readyState \in {"CONNECTING", "OPEN"}}) <= 1

\* A reconnect timer has just replaced a connection: the old socket is
\* closing, the new one is connecting and referenced.
C20_Witness ==
    /\ last.op = "reconnect"
    /\ svc.socket # NULL
    /\ sockets[svc.socket[1]].readyState = "CONNECTING"
    /\ \E s \in DOMAIN sockets :
          svc.socket # Some(s) /\ sockets[s].readyState = "CLOSING"

\* The socket the channel references is open.
CurrentSocketOpen ==
    svc.socket # NULL /\ sockets[svc.socket[1]].readyState = "OPEN"

\* C21: whenever the channel's current socket is open, the heartbeat timer
\* set by connect() is active.
C21_HeartbeatWhileOpen ==
    CurrentSocketOpen
        => (svc.pingInterval # NULL /\ svc.pingInterval[1] \in intervals)

\* C22: connect(id2) closes the connection the channel had before the new
\* socket exists, and from then on every connection of the channel that is
\* connecting or open targets id2, those opened by reconnect timers
\* included; only connect() changes the id the channel targets.
C22_LiveSocketsTargetCurrentId ==
    \A s \in DOMAIN sockets :
        sockets[s].readyState \in {"CONNECTING", "OPEN"}
            => sockets[s].gen = svc.generationId

C22_ConnectSwitches ==
    /\ last'.op = "connect"
          => /\ svc'.generationId = last'.arg
             /\ svc.socket # NULL
                   => \/ svc.socket[1] \notin DOMAIN sockets'
                      \/ svc'.socket = svc.socket
                      \/ sockets'[svc.socket[1]].readyState \in {"CLOSING", "CLOSED"}
             /\ svc'.socket # NULL
             /\ sockets'[svc'.socket[1]] = [readyState |-> "CONNECTING", gen |-> last'.arg]
    /\ last'.op = "reconnect"
          => /\ svc'.generationId = svc.generationId
             /\ svc'.socket # NULL
             /\ sockets'[svc'.socket[1]].gen = svc.generationId
    /\ last'.op # "connect" => svc'.generationId = svc.generationId

C22_ConnectRetargets ==
    []C22_LiveSocketsTargetCurrentId /\ [][C22_ConnectSwitches]_vars

\* After connect("g2") replaced a connection for g1, which is still closing,
\* a reconnect timer has fired and opened a connection for g2.
C22_Witness ==
    /\ last.op = "reconnect"
    /\ svc.generationId = "g2"
    /\ svc.socket # NULL
    /\ sockets[svc.socket[1]] = [readyState |-> "CONNECTING", gen |-> "g2"]
    /\ \E s \in DOMAIN sockets :
          sockets[s] = [readyState |-> "CLOSING", gen |-> "g1"]

\* C23: wsConnected is true exactly when the socket the channel references
\* is open.
C23_FlagMatchesSocket == store.wsConnected <=> CurrentSocketOpen

\* A generation_complete frame is being applied to a current session.
Completing ==
    HasCur /\ last'.op = "onmessage" /\ last'.info = "generation_complete"

\* C24: no store action removes, reorders or modifies an entry of
\* generationHistory, and a completion adds the finalized session as one new
\* entry at the end of the list.
C24_AppendAtEnd ==
    [][IF Completing
       THEN store'.generationHistory = Append(store.generationHistory, Cur')
       ELSE store'.generationHistory = store.generationHistory]_vars

\* C24 as amended: no store action removes, reorders or modifies an entry of
\* generationHistory, and a completion adds the finalized session as one new
\* entry at the front of the list.
C24_AddAtFront ==
    [][IF Completing
       THEN store'.generationHistory = <<Cur'>> \o store.generationHistory
       ELSE store'.generationHistory = store.generationHistory]_vars

\* A second session, started after the first was completed, has just been
\* completed: it is the first entry of the history, the earlier one the second.
C24_Witness ==
    /\ last.op = "onmessage"
    /\ last.info = "generation_complete"
    /\ HasCur
    /\ Len(store.generationHistory) = 2
    /\ store.generationHistory[1] = Cur
    /\ store.generationHistory[2].startedAt = 0
    /\ store.generationHistory[2].completedAt = Some(0)
    /\ Cur.startedAt = 1
    /\ Cur.completedAt = Some(1)

\* C25: a session that reaches completed or failed, and a session removed
\* from the current slot by cancelGeneration or clearCurrentGeneration, is an
\* entry of generationHistory afterwards.
C25_RetiredIntoHistory ==
    [][(/\ HasCur
        /\ last'.op \in {"onmessage", "cancelGeneration", "clearCurrentGeneration"}
        /\ \/ ~HasCur'
           \/ (Terminal(Cur') /\ ~Terminal(Cur)))
          => \E i \in DOMAIN store'.generationHistory :
                /\ store'.generationHistory[i].id = Cur.id
                /\ store'.generationHistory[i].startedAt = Cur.startedAt]_vars

\* C27: a frame whose generation_id differs from the id of the current
\* session does not modify that session.
C27_SessionIdGuard ==
    [][(/\ HasCur
        /\ last'.op = "onmessage"
        /\ "generation_id" \in DOMAIN last'.frame[1]
        /\ last'.frame[1].generation_id # Cur.id)
          => (HasCur' /\ Cur' = Cur)]_vars

\* C28: completedAt of a session is absent until the session is completed or
\* failed, is written at that transition, and is never rewritten afterwards,
\* whatever frames or transport failures follow.
C28_SetOnlyWhenTerminal ==
    \A g \in Sessions : g.completedAt # NULL <=> Terminal(g)

C28_NeverRewritten ==
    (HasCur /\ last'.op \in {"onmessage", "onclose"} /\ Cur.completedAt # NULL)
        => (HasCur' /\ Cur'.completedAt = Cur.completedAt)

C28_CompletedAtSetOnce == []C28_SetOnlyWhenTerminal /\ [][C28_NeverRewritten]_vars

\* C26: a restart keeps auth and generationHistory (each entry as its JSON
\* round trip leaves it) and nothing else: afterwards currentGeneration is
\* null, isGenerating is false and wsConnected is false.
C26_RestartKeepsAuthAndHistory ==
    [][last'.op = "restart"
          => /\ store'.auth = store.auth
             /\ DOMAIN store'.generationHistory = DOMAIN store.generationHistory
             /\ \A i \in DOMAIN store.generationHistory :
                    store'.generationHistory[i]
                        = [store.generationHistory[i] EXCEPT !.dates = "string"]
             /\ store'.currentGeneration = NULL
             /\ ~store'.isGenerating
             /\ ~store'.wsConnected]_vars

\* The page has just been loaded again: the user is still logged in and the
\* completed session is still listed, with nothing current.
C26_Witness ==
    /\ last.op = "restart"
    /\ store.auth.token = Some("mock-token-12345")
    /\ Len(store.generationHistory) = 1
    /\ store.generationHistory[1].status = "completed"
    /\ store.generationHistory[1].dates = "string"
    /\ store.currentGeneration = NULL
    /\ ~store.isGenerating
    /\ ~store.wsConnected

\* The fields of the generation slice.
GenerationSlice(st) ==
    [currentGeneration |-> st.currentGeneration,
     generationHistory |-> st.generationHistory,
     isGenerating |-> st.isGenerating,
     wsConnected |-> st.wsConnected]

\* C29: a request carries an Authorization bearer header exactly when
\* auth.token is non-null when it is sent; a response with status 401 runs
\* logout (auth.user and auth.token become null, the generation state is
\* not touched by it) and the call is still rejected to its caller.
C29_RequestCarriesToken ==
    (\/ last'.op = "startGeneration" /\ last'.info = "awaiting"
     \/ last'.op = "cancelGeneration" /\ last'.info = "requested")
        => /\ store.auth.token = NULL => last'.arg = NoHeader
           /\ store.auth.token # NULL => last'.arg = "Bearer mock-token-12345"

C29_UnauthorizedLogsOut ==
    /\ (last'.op = "startGeneration rejected" /\ last'.frame[1].status = 401)
          => /\ store'.auth.user = NULL
             /\ store'.auth.token = NULL
             /\ store'.currentGeneration = store.currentGeneration
             /\ store'.generationHistory = store.generationHistory
             /\ store'.wsConnected = store.wsConnected
             /\ startReqs' = startReqs - 1
    /\ (last'.op = "startGeneration rejected" /\ last'.frame[1].status # 401)
          => store'.auth = store.auth
    /\ (last'.op = "cancel settled" /\ last'.info = "unauthorized")
          => /\ store'.auth.user = NULL
             /\ store'.auth.token = NULL
             /\ GenerationSlice(store') = GenerationSlice(store)
    /\ (last'.op = "cancel settled" /\ last'.info # "unauthorized")
          => store'.auth = store.auth

C29_Credentials == [][C29_RequestCarriesToken /\ C29_UnauthorizedLogsOut]_vars

\* A logged-in user's creation request has just been sent with the
\* credential.
C29_Witness ==
    /\ last.op = "startGeneration"
    /\ last.info = "awaiting"
    /\ last.arg = "Bearer mock-token-12345"
    /\ store.auth.token = Some("mock-token-12345")
    /\ store.auth.user # NULL

\* The phase of session g that has the given id.
Phase(g, id) == g.steps[CHOOSE i \in DOMAIN g.steps : g.steps[i].id = id]

\* C30: agent_progress sets only the named phase to in_progress with its
\* progress, agent_completed sets only the named phase to completed, and
\* agent_failed sets only the named phase to failed; none of them changes the
\* session's status or any other phase.
C30_PhaseScopedEvents ==
    [][(HasCur /\ last'.op = "agent event")
          => /\ HasCur'
             /\ Cur'.status = Cur.status
             /\ \A i \in DOMAIN Cur.steps :
                    Cur.steps[i].id # last'.arg => Cur'.steps[i] = Cur.steps[i]
             /\ last'.info = "agent_progress"
                    => /\ Phase(Cur', last'.arg).status = "in_progress"
                       /\ Phase(Cur', last'.arg).progress = last'.frame[1].progress
             /\ last'.info = "agent_completed"
                    => Phase(Cur', last'.arg).status = "completed"
             /\ last'.info = "agent_failed"
                    => Phase(Cur', last'.arg).status = "failed"]_vars

\* C31: with no current session, a progress_update, generation_complete or
\* error frame (updateProgress, completeGeneration, failGeneration) leaves
\* the whole store as it was.
C31_NoSessionNoEffect ==
    [][(~HasCur /\ last'.op = "onmessage"
          /\ last'.info \in {"progress_update", "generation_complete", "error"})
          => store' = store]_vars

\* A completion frame has just arrived with no current session, while a
\* creation request is in flight, the channel is up and one session is listed.
C31_Witness ==
    /\ last.op = "onmessage"
    /\ last.info = "generation_complete"
    /\ ~HasCur
    /\ store.isGenerating
    /\ store.wsConnected
    /\ Len(store.generationHistory) = 1

\* The retry counter goes down only in onopen, which sets it to 0.
C32_ResetOnlyByOpen ==
    /\ svc'.reconnectAttempts < svc.reconnectAttempts
          => (last'.op = "onopen" /\ svc'.reconnectAttempts = 0)
    /\ last'.op = "onopen" => svc'.reconnectAttempts = 0

\* An open connection that closes sets the first timer of the schedule.
C32_FirstDelayAfterOpen ==
    (last'.op = "onclose" /\ last'.info = "OPEN")
        => /\ svc'.reconnectAttempts = 1
           /\ timers' = Append(timers, reconnectInterval)

\* C32: the retry counter is reset to 0 by a successful open and by nothing
\* else, so that when an open connection is closed unexpectedly the
\* reconnect is scheduled after 1000 ms.
C32_RetryCounterReset == [][C32_ResetOnlyByOpen /\ C32_FirstDelayAfterOpen]_vars

\* C33: a progress_update frame with progress P, step S naming a phase of
\* the session and step_progress Q leaves the session's progress at P and
\* phase S in_progress with progress exactly Q.
C33_ProgressExact ==
    [][(HasCur /\ last'.op = "onmessage" /\ last'.info = "progress_update"
          /\ {"progress", "step", "step_progress"} \subseteq DOMAIN last'.frame[1]
          /\ \E i \in DOMAIN Cur.steps : Cur.steps[i].id = last'.frame[1].step)
          => /\ Cur'.progress = last'.frame[1].progress
             /\ Phase(Cur', last'.frame[1].step).status = "in_progress"
             /\ Phase(Cur', last'.frame[1].step).progress
                    = last'.frame[1].step_progress]_vars

\* C34: the transport never turns a completed session into a failed one:
\* the CONNECTION_LOST failure of the exhausted reconnects is applied only
\* to a session that is still in_progress.
C34_CompletedSurvivesTransport ==
    [][(HasCur /\ last'.op = "onclose")
          => /\ Cur.status = "completed" => (HasCur' /\ Cur'.status = "completed")
             /\ (HasCur' /\ Cur'.error = Some(ConnectionLost)
                    /\ Cur.error # Some(ConnectionLost))
                   => Cur.status = "in_progress"]_vars

\* C35: generationHistory never holds two entries with the same session id.
C35_UniqueHistoryIds ==
    \A i, j \in DOMAIN store.generationHistory :
        i # j => store.generationHistory[i].id # store.generationHistory[j].id

\* C36: after cancelGeneration() or clearCurrentGeneration() the current
\* session stays null until startGeneration is called again: the response
\* to a creation request that was sent before the cancel or clear installs
\* no session.
C36_LateResponseInstallsNothing ==
    [][((\/ last.op = "cancelGeneration" /\ last.info = "requested"
         \/ last.op = "clearCurrentGeneration")
          /\ last'.op = "startGeneration" /\ last'.info = "resolved")
          => ~HasCur']_vars

\* C37: whenever the current session is in_progress, isGenerating is true.
C37_InProgressIsGenerating ==
    (HasCur /\ Cur.status = "in_progress") => store.isGenerating

\* C38: at most one reconnect timer of the channel is pending at any time.
C38_OneReconnectTimer == Len(timers) <= 1

\* C39: a connect(id) for another session starts with the full retry
\* budget: no failure counted for an earlier session is carried over, so
\* that 5 reconnect attempts are made before CONNECTION_LOST is reported.
C39_FreshBudgetPerSession ==
    [][(last'.op = "connect" /\ svc.generationId # NullId
          /\ last'.arg # svc.generationId)
          => svc'.reconnectAttempts = 0]_vars

\* currentStep is one of the five steps.
C40_StepInRange == wizard.currentStep \in 0..4

\* One action moves forward by at most one step, and only handleNext or a
\* click on the next step does, after the step it was made on validated.
C40_ForwardOneValidStep ==
    /\ wizard'.currentStep <= wizard.currentStep + 1
    /\ wizard'.currentStep > wizard.currentStep
          => /\ last'.op \in {"handleNext", "handleStepClick"}
             /\ last'.frame[1].step = wizard.currentStep
             /\ last'.frame[1].valid

\* A click on any earlier step moves there, whatever the form holds, and
\* Previous moves one step back.
C40_BackAlways ==
    /\ (last'.op = "handleStepClick" /\ last'.frame[1].target < wizard.currentStep)
          => wizard'.currentStep = last'.frame[1].target
    /\ \A i \in 0..4 : i < wizard.currentStep => ~StepButtonDisabled(wizard, i)
    /\ last'.op = "handlePrevious" => wizard'.currentStep = wizard.currentStep - 1

\* A creation request leaves the wizard only through onComplete, called on
\* the last step after its validation passed.
C40_CompleteFromLastStep ==
    /\ startReqs' > startReqs => (last'.op = "handleNext" /\ last'.info = "onComplete")
    /\ (last'.op = "handleNext" /\ last'.info = "onComplete")
          => /\ wizard.currentStep = 4
             /\ last'.frame[1].valid
             /\ wizard'.currentStep = 4

\* C40: wizard navigation: currentStep stays in 0..4, goes up by at most
\* one per action and only after the current step validated, can always go
\* back to any earlier step, and onComplete is called only from the last
\* step once it validated.
C40_WizardNavigation ==
    /\ []C40_StepInRange
    /\ [][C40_ForwardOneValidStep /\ C40_BackAlways /\ C40_CompleteFromLastStep]_vars

\* The user went through the steps to the last one, has just clicked back
\* on the second step, and every earlier step is marked completed.
C40_Witness ==
    /\ last.op = "handleStepClick"
    /\ last.frame[1].step = 4
    /\ last.frame[1].target = 1
    /\ wizard.currentStep = 1
    /\ wizard.completedSteps = {0, 1, 2, 3}

====
